---- MODULE Spec2Model ----
(***************************************************************************)
(* zero_modbus python client (src/zero_modbus_pyclient/pyclient.py):       *)
(* ZmbClient over a zmq REQ socket, one blocking request/reply per call.   *)
(*                                                                         *)
(* Python objects are trees Node(t, s, items); a wire frame is a sequence  *)
(* of JSON lexemes Tok(c, s, hi), hi marking a lexeme whose bytes are not  *)
(* all ASCII.  json.dumps / json.loads are the serialiser and the          *)
(* recursive-descent parser between the two.                               *)
(***************************************************************************)
EXTENDS Integers, Sequences, FiniteSets, TLC

\* ------------------------------------------------------------ bounds
\* number of calls (test/get/set) one client makes in a behaviour
MaxCalls == 3

\* ------------------------------------------------------------ python values
Node(t, s, items) == [t |-> t, s |-> s, items |-> items]
Str(s)      == Node("str", s, <<>>)
Num(s)      == Node("num", s, <<>>)
Bool(s)     == Node("bool", s, <<>>)
NoneV       == Node("none", "", <<>>)
List(xs)    == Node("list", "", xs)
Item(k, v)  == Node("item", k, <<v>>)
Dict(items) == Node("dict", "", items)

\* dict[k] = v: an existing key keeps its position, a new key goes last
RECURSIVE DictPut(_, _, _)
DictPut(items, k, v) ==
    IF items = <<>> THEN <<Item(k, v)>>
    ELSE IF Head(items).s = k THEN <<Item(k, v)>> \o Tail(items)
    ELSE <<Head(items)>> \o DictPut(Tail(items), k, v)

DictHas(d, k) == \E i \in 1..Len(d.items) : d.items[i].s = k
DictGet(d, k) == d.items[CHOOSE i \in 1..Len(d.items) : d.items[i].s = k].items[1]

\* ------------------------------------------------------------ wire lexemes
Tok(c, s, hi) == [c |-> c, s |-> s, hi |-> hi]
P(c) == Tok(c, "", FALSE)

\* json.dumps as send_json uses it (ensure_ascii: every lexeme is ASCII)
RECURSIVE dumps(_), dumpsElems(_), dumpsMembers(_)
dumps(v) ==
    CASE v.t = "str"  -> <<Tok("str", v.s, FALSE)>>
      [] v.t = "num"  -> <<Tok("num", v.s, FALSE)>>
      [] v.t = "bool" -> <<Tok("lit", v.s, FALSE)>>
      [] v.t = "none" -> <<Tok("lit", "null", FALSE)>>
      [] v.t = "list" -> <<P("[")>> \o dumpsElems(v.items) \o <<P("]")>>
      [] v.t = "dict" -> <<P("{")>> \o dumpsMembers(v.items) \o <<P("}")>>

dumpsElems(xs) ==
    IF xs = <<>> THEN <<>>
    ELSE dumps(Head(xs)) \o
         (IF Len(xs) = 1 THEN <<>> ELSE <<P(",")>> \o dumpsElems(Tail(xs)))

dumpsMembers(xs) ==
    IF xs = <<>> THEN <<>>
    ELSE <<Tok("str", Head(xs).s, FALSE), P(":")>> \o dumps(Head(xs).items[1]) \o
         (IF Len(xs) = 1 THEN <<>> ELSE <<P(",")>> \o dumpsMembers(Tail(xs)))

\* json.loads: [ok, v, i] with i the index after the value parsed
ParseFail == [ok |-> FALSE, v |-> NoneV, i |-> 0]
ParseOk(v, i) == [ok |-> TRUE, v |-> v, i |-> i]
At(ts, i) == IF i >= 1 /\ i <= Len(ts) THEN ts[i].c ELSE "eof"

Literal(s) == IF s = "null" THEN NoneV ELSE Bool(s)

RECURSIVE ParseValue(_, _), ParseElems(_, _, _), ParseMembers(_, _, _)
ParseValue(ts, i) ==
    CASE At(ts, i) = "str" -> ParseOk(Str(ts[i].s), i + 1)
      [] At(ts, i) = "num" -> ParseOk(Num(ts[i].s), i + 1)
      [] At(ts, i) = "lit" -> ParseOk(Literal(ts[i].s), i + 1)
      [] At(ts, i) = "["   -> IF At(ts, i + 1) = "]" THEN ParseOk(List(<<>>), i + 2)
                              ELSE ParseElems(ts, i + 1, <<>>)
      [] At(ts, i) = "{"   -> IF At(ts, i + 1) = "}" THEN ParseOk(Dict(<<>>), i + 2)
                              ELSE ParseMembers(ts, i + 1, <<>>)
      [] OTHER -> ParseFail

ParseElems(ts, i, acc) ==
    LET r == ParseValue(ts, i) IN
    IF ~r.ok THEN ParseFail
    ELSE IF At(ts, r.i) = "," THEN ParseElems(ts, r.i + 1, Append(acc, r.v))
    ELSE IF At(ts, r.i) = "]" THEN ParseOk(List(Append(acc, r.v)), r.i + 1)
    ELSE ParseFail

ParseMembers(ts, i, acc) ==
    IF At(ts, i) # "str" \/ At(ts, i + 1) # ":" THEN ParseFail
    ELSE LET r == ParseValue(ts, i + 2) IN
         IF ~r.ok THEN ParseFail
         ELSE IF At(ts, r.i) = "," THEN ParseMembers(ts, r.i + 1, DictPut(acc, ts[i].s, r.v))
         ELSE IF At(ts, r.i) = "}" THEN ParseOk(Dict(DictPut(acc, ts[i].s, r.v)), r.i + 1)
         ELSE ParseFail

\* the whole text must be one value (trailing data is a decode error)
loads(ts) ==
    LET r == ParseValue(ts, 1) IN
    IF r.ok /\ r.i = Len(ts) + 1 THEN r ELSE ParseFail

\* bytes.decode('ASCII') succeeds iff no byte is above 0x7f
decodeASCII(ts) == \A i \in 1..Len(ts) : ~ts[i].hi

\* ------------------------------------------------------------ outcomes of a call
\* a call ends by returning val or by raising etype(*args); cause is the
\* exception object carried as the error's second argument
Return(v) == [kind |-> "return", val |-> v, etype |-> "", args |-> <<>>, cause |-> ""]
Raise(etype, args, cause) ==
    [kind |-> "raise", val |-> NoneV, etype |-> etype, args |-> args, cause |-> cause]
Pending == [kind |-> "", val |-> NoneV, etype |-> "", args |-> <<>>, cause |-> ""]

InvalidLabel == "INVAILED RESPONSE"
Kinds == {"ERROR", "TEST", "GET", "SET"}

\* ------------------------------------------------------------ ZmbClient.__do_request
\* locals after the try block: e the exception caught ("" when none)
Locals(e, key, value, response) ==
    [e |-> e, key |-> key, value |-> value, response |-> response]
\* an exception before popitem leaves key, value at their initial pair
Caught(e) == Locals(e, "ERROR", Str("ZMQ ERROR"), NoneV)

AssertDict(response) == response.t = "dict"
\* mutant: the key count checked with >= instead of ==
AssertOneKey_AtLeast(response) == Len(response.items) >= 1
AssertOneKey(response) == Len(response.items) = 1
\* mutant: the kind of the key is not checked
AssertKind_Any(key) == TRUE
AssertKind(key) == key \in Kinds

\* dict.popitem(): removes and returns the last pair
popitem(d) ==
    [key   |-> d.items[Len(d.items)].s,
     value |-> d.items[Len(d.items)].items[1],
     rest  |-> Dict(SubSeq(d.items, 1, Len(d.items) - 1))]

\* the try block from the bytes recv() returned
try_recv(frame) ==
    IF ~decodeASCII(frame) THEN Caught("UnicodeDecodeError")
    ELSE LET r == loads(frame) IN
         IF ~r.ok THEN Caught("JSONDecodeError")
         ELSE IF ~AssertDict(r.v) THEN Caught("AssertionError")
         ELSE IF ~AssertOneKey(r.v) THEN Caught("AssertionError")
         ELSE LET p == popitem(r.v) IN
              IF ~AssertKind(p.key)
              THEN Locals("AssertionError", p.key, p.value, p.rest)
              ELSE Locals("", p.key, p.value, p.rest)

\* mutant: except ValueError, which lets every other exception escape raw
except_clause_ValueError(e) ==
    IF e \in {"JSONDecodeError", "UnicodeDecodeError"}
    THEN Raise("ZeroModbusError", <<Str(InvalidLabel)>>, e)
    ELSE Raise(e, <<>>, "")
\* except Exception as e: exception = ZeroModbusError("INVAILED RESPONSE", e)
except_clause(e) == Raise("ZeroModbusError", <<Str(InvalidLabel)>>, e)

\* response[key] on the dict popitem left behind
subscript(response, key) ==
    IF response.t = "dict" /\ DictHas(response, key)
    THEN Raise("ZeroModbusError", <<DictGet(response, key)>>, "")
    ELSE Raise("KeyError", <<Str(key)>>, "")

\* mutant: return key
after_try_ReturnKey(l) ==
    IF l.e # "" THEN except_clause(l.e)
    ELSE IF l.key = "ERROR" THEN subscript(l.response, l.key)
    ELSE Return(Str(l.key))
\* mutant: return response (the dict popitem has emptied)
after_try_ReturnResponse(l) ==
    IF l.e # "" THEN except_clause(l.e)
    ELSE IF l.key = "ERROR" THEN subscript(l.response, l.key)
    ELSE Return(l.response)
\* mutant: the caught exception is not raised and line 32 raises value
after_try_NoRaise(l) ==
    IF l.key = "ERROR" THEN Raise("ZeroModbusError", <<l.value>>, "")
    ELSE Return(l.value)
\* the statements after the try block
after_try(l) ==
    IF l.e # "" THEN except_clause(l.e)
    ELSE IF l.key = "ERROR" THEN subscript(l.response, l.key)
    ELSE Return(l.value)

\* ------------------------------------------------------------ test / get / set
test_body(uuid) == Dict(<<Item("TEST", Str(uuid))>>)
get_body(paths) == Dict(<<Item("GET", paths)>>)
\* mutant: set written from get with the key left as it was
set_body_GetKey(pairs) == Dict(<<Item("GET", pairs)>>)
set_body(pairs) == Dict(<<Item("SET", pairs)>>)

Body(op, tok, arg) ==
    CASE op = "test" -> test_body(tok)
      [] op = "get"  -> get_body(arg)
      [] op = "set"  -> set_body(arg)

\* mutant: uuid compared with the request body instead of its payload
test_result_Body(uuid, o) ==
    IF o.kind = "return"
    THEN Return(Bool(IF o.val = test_body(uuid) THEN "true" ELSE "false"))
    ELSE o
\* uuid == self.__do_request(...): a str equals only a str of the same text
test_result(uuid, o) ==
    IF o.kind = "return"
    THEN Return(Bool(IF o.val = Str(uuid) THEN "true" ELSE "false"))
    ELSE o

Finish(op, tok, o) == IF op = "test" THEN test_result(tok, o) ELSE o

send_json(body) == dumps(body)

\* ------------------------------------------------------------ inputs
Tokens == {"u1", "u2"}
Paths == {"/a", "/b"}
GetArgs == {List(<<>>), List(<<Str("/a")>>), List(<<Str("/a"), Str("/b")>>)}
SetArgs == {Dict(<<Item("/a", Num("123"))>>),
            Dict(<<Item("/a", Bool("false"))>>),
            Dict(<<Item("/b", Num("123"))>>)}
Requests ==
    {[op |-> "test", tok |-> t, arg |-> NoneV] : t \in Tokens}
    \cup {[op |-> "get", tok |-> "", arg |-> a] : a \in GetArgs}
    \cup {[op |-> "set", tok |-> "", arg |-> a] : a \in SetArgs}

ErrMsgs == {"disk full"}

\* frames a server that breaks the contract may put on the channel, T a token
BadFrames(T) ==
    { <<Tok("bad", "", FALSE)>>,
      <<P("{"), Tok("str", "TEST", FALSE), P(":")>>,
      dumps(test_body(T)) \o <<P("}")>>,
      dumps(List(<<Str("TEST")>>)),
      dumps(Str(T)),
      dumps(Num("5")),
      dumps(Dict(<<>>)),
      dumps(Dict(<<Item("GET", Str(T)), Item("SET", Str(T))>>)),
      dumps(Dict(<<Item("PING", Str(T))>>)),
      dumps(Dict(<<Item("GET", Str(T))>>)),
      dumps(Dict(<<Item("SET", Str(T))>>)),
      dumps(Dict(<<Item("ERROR", Str(T))>>)),
      dumps(Dict(<<Item("TEST", Str("zz"))>>)),
      dumps(Dict(<<Item("TEST", Dict(<<>>))>>)),
      dumps(Dict(<<Item("SET", Dict(<<Item("/a", Bool("true"))>>))>>)),
      <<P("{"), Tok("str", "TEST", FALSE), P(":"), Tok("str", "zz", FALSE), P(","),
        Tok("str", "TEST", FALSE), P(":"), Tok("str", T, FALSE), P("}")>>,
      <<P("{"), Tok("str", "ERROR", FALSE), P(":"), Tok("str", "caf\\xc3\\xa9", TRUE), P("}")>>,
      <<P("{"), Tok("str", "GET", FALSE), P(":"), Tok("str", "caf\\xc3\\xa9", TRUE), P("}")>>,
      dumps(Dict(<<Item("GET", Str("ZMQ ERROR"))>>)) }

\* ------------------------------------------------------------ protocol server (contract)
RECURSIVE GetItems(_, _, _), ApplySet(_, _)
GetItems(paths, st, acc) ==
    IF paths = <<>> THEN acc
    ELSE GetItems(Tail(paths), st, DictPut(acc, Head(paths).s, st[Head(paths).s]))

ApplySet(items, st) ==
    IF items = <<>> THEN st
    ELSE ApplySet(Tail(items), [st EXCEPT ![Head(items).s] = Head(items).items[1]])

SetItems(items) == [i \in 1..Len(items) |-> Item(items[i].s, Bool("true"))]

ErrorFrame(m) == dumps(Dict(<<Item("ERROR", Str(m))>>))
KnownPaths(xs) == \A i \in 1..Len(xs) : xs[i].s \in Paths

\* the reply and the store after one request, [frame, store]
Dispatch(frame, st) ==
    LET r == loads(frame)
        bad == [frame |-> ErrorFrame("bad request"), store |-> st]
    IN IF ~(r.ok /\ r.v.t = "dict" /\ Len(r.v.items) = 1) THEN bad
       ELSE LET k == r.v.items[1].s
                p == r.v.items[1].items[1]
            IN CASE k = "TEST" ->
                      [frame |-> dumps(Dict(<<Item("TEST", p)>>)), store |-> st]
                 [] k = "GET" /\ p.t = "list" /\ KnownPaths(p.items) ->
                      [frame |-> dumps(Dict(<<Item("GET", Dict(GetItems(p.items, st, <<>>)))>>)),
                       store |-> st]
                 [] k = "SET" /\ p.t = "dict" /\ KnownPaths(p.items) ->
                      [frame |-> dumps(Dict(<<Item("SET", Dict(SetItems(p.items)))>>)),
                       store |-> ApplySet(p.items, st)]
                 [] OTHER -> bad

\* ------------------------------------------------------------ state
VARIABLES
    pc,       \* "idle": no call in progress; "wait": a call is blocked in recv()
    sock,     \* the REQ socket: "ready" to send, or "await"ing the reply
    cur,      \* the call in progress
    reqQ,     \* requests on the channel, client to server
    repQ,     \* replies on the channel, server to client
    store,    \* the server's data store, path -> value
    last,     \* the call that completed last, with its outcome
    ncalls,   \* calls started so far
    honest,   \* history: every reply so far followed the server contract
    lastSet   \* history: path -> value of the last set of it that returned, else None

vars == <<pc, sock, cur, reqQ, repQ, store, last, ncalls, honest, lastSet>>

NoReply == [n |-> 0, frame |-> <<>>, mode |-> ""]
NoCall == [n |-> 0, op |-> "", tok |-> "", arg |-> NoneV, sends |-> 0, recvs |-> 0]
NoLast == [n |-> 0, op |-> "", tok |-> "", arg |-> NoneV, sends |-> 0, recvs |-> 0,
           fail |-> "", got |-> NoReply, out |-> Pending]

Done(c, fail, got, out) ==
    [n |-> c.n, op |-> c.op, tok |-> c.tok, arg |-> c.arg, sends |-> c.sends,
     recvs |-> c.recvs, fail |-> fail, got |-> got, out |-> out]

Init ==
    /\ pc = "idle"
    /\ sock = "ready"
    /\ cur = NoCall
    /\ reqQ = <<>>
    /\ repQ = <<>>
    /\ store = [p \in Paths |-> IF p = "/a" THEN Bool("true") ELSE Num("7")]
    /\ last = NoLast
    /\ ncalls = 0
    /\ honest = TRUE
    /\ lastSet = [p \in Paths |-> NoneV]

\* ------------------------------------------------------------ client steps
NewCall(rq) ==
    [n |-> ncalls + 1, op |-> rq.op, tok |-> rq.tok, arg |-> rq.arg,
     sends |-> 1, recvs |-> 0]

\* test/get/set entered, send_json put the request on the channel
SendOk(rq) ==
    /\ pc = "idle"
    /\ ncalls < MaxCalls
    /\ sock = "ready"
    /\ ncalls' = ncalls + 1
    /\ cur' = NewCall(rq)
    /\ reqQ' = Append(reqQ, [n |-> ncalls + 1, frame |-> send_json(Body(rq.op, rq.tok, rq.arg))])
    /\ sock' = "await"
    /\ pc' = "wait"
    /\ lastSet' = [p \in Paths |->
                     IF rq.op = "set" /\ DictHas(rq.arg, p) THEN NoneV ELSE lastSet[p]]
    /\ UNCHANGED <<repQ, store, last, honest>>

\* test/get/set entered, send_json raised (always so while a reply is awaited)
SendFail(rq) ==
    /\ pc = "idle"
    /\ ncalls < MaxCalls
    /\ ncalls' = ncalls + 1
    /\ last' = Done(NewCall(rq), "send", NoReply,
                    Finish(rq.op, rq.tok, after_try(Caught("ZMQError"))))
    /\ UNCHANGED <<pc, sock, cur, reqQ, repQ, store, honest, lastSet>>

\* mutant: the reply read is left on the channel
recv_rest_Peek(q) == q
\* what recv() leaves on the channel
recv_rest(q) == Tail(q)
\* mutant: a socket that does not enforce the send/recv alternation
sock_after_recv_fail_Ready == "ready"
\* the REQ socket after a recv() that raised: the reply is still awaited
sock_after_recv_fail == "await"

\* mutant: recv() gives up without a reply and the call returns None
Recv_NoWait ==
    /\ pc = "wait"
    /\ last' = Done(cur, "", NoReply, Return(NoneV))
    /\ sock' = "ready"
    /\ pc' = "idle"
    /\ cur' = NoCall
    /\ UNCHANGED <<reqQ, repQ, store, ncalls, honest, lastSet>>
\* recv() returned the next reply; the rest of the call runs to its end
Recv ==
    /\ pc = "wait"
    /\ repQ # <<>>
    /\ LET m == Head(repQ)
           c == [cur EXCEPT !.recvs = @ + 1]
           o == Finish(c.op, c.tok, after_try(try_recv(m.frame)))
       IN /\ last' = Done(c, "", m, o)
          /\ lastSet' = [p \in Paths |->
                IF c.op = "set" /\ o.kind = "return" /\ honest /\ m.mode = "ok"
                   /\ DictHas(c.arg, p)
                THEN DictGet(c.arg, p) ELSE lastSet[p]]
    /\ repQ' = recv_rest(repQ)
    /\ sock' = "ready"
    /\ pc' = "idle"
    /\ cur' = NoCall
    /\ UNCHANGED <<reqQ, store, ncalls, honest>>

\* mutant: a failed recv() is followed by a second send of the request
RecvFail_Retry ==
    /\ pc = "wait"
    /\ cur.sends < 3
    /\ cur' = [cur EXCEPT !.recvs = @ + 1, !.sends = @ + 1]
    /\ reqQ' = Append(reqQ, [n |-> cur.n, frame |-> send_json(Body(cur.op, cur.tok, cur.arg))])
    /\ UNCHANGED <<pc, sock, repQ, store, last, ncalls, honest, lastSet>>
\* recv() raised
RecvFail ==
    /\ pc = "wait"
    /\ LET c == [cur EXCEPT !.recvs = @ + 1]
       IN last' = Done(c, "recv", NoReply,
                       Finish(c.op, c.tok, after_try(Caught("ZMQError"))))
    /\ sock' = sock_after_recv_fail
    /\ pc' = "idle"
    /\ cur' = NoCall
    /\ UNCHANGED <<reqQ, repQ, store, ncalls, honest, lastSet>>

\* ------------------------------------------------------------ server steps
Reply(mode, frame, st) ==
    /\ reqQ # <<>>
    /\ reqQ' = Tail(reqQ)
    /\ repQ' = Append(repQ, [n |-> Head(reqQ).n, frame |-> frame, mode |-> mode])
    /\ store' = st
    /\ honest' = (honest /\ mode # "bad")
    /\ UNCHANGED <<pc, sock, cur, last, ncalls, lastSet>>

ServeOk ==
    /\ reqQ # <<>>
    /\ LET d == Dispatch(Head(reqQ).frame, store) IN Reply("ok", d.frame, d.store)

ServeError(m) ==
    /\ reqQ # <<>>
    /\ Reply("error", ErrorFrame(m), store)

ServeBad(f) ==
    /\ reqQ # <<>>
    /\ Reply("bad", f, store)

Next ==
    \/ \E rq \in Requests : SendOk(rq)
    \/ \E rq \in Requests : SendFail(rq)
    \/ Recv
    \/ RecvFail
    \/ ServeOk
    \/ \E m \in ErrMsgs : ServeError(m)
    \/ \E T \in Tokens : \E f \in BadFrames(T) : ServeBad(f)

Spec == Init /\ [][Next]_vars

\* ENABLED <<Recv>>_vars: a call is blocked in recv() and a reply has arrived
RecvEnabled == pc = "wait" /\ repQ # <<>>

\* the server answers every request: every server step is enabled exactly
\* when a request is waiting and takes it, so weak fairness of one of them
\* says that a waiting request is answered
ServerAnswers == WF_vars(\E m \in ErrMsgs : ServeError(m))

\* the channel hands a reply that has arrived to the recv() blocked on it:
\* WF_vars(Recv), with ENABLED <<Recv>>_vars written as RecvEnabled
ChannelDelivers == []<>(~RecvEnabled) \/ []<><<Recv>>_vars

\* one frame for each way try_recv and after_try can end; whether and when
\* a call completes does not depend on more of the reply than that
LiveFrames(T) ==
    { <<Tok("bad", "", FALSE)>>,
      dumps(Dict(<<>>)),
      dumps(Dict(<<Item("PING", Str(T))>>)),
      dumps(Dict(<<Item("GET", Str(T))>>)),
      <<P("{"), Tok("str", "ERROR", FALSE), P(":"), Tok("str", "caf\\xc3\\xa9", TRUE), P("}")>> }

FairNext ==
    \/ \E rq \in Requests : SendOk(rq)
    \/ \E rq \in Requests : SendFail(rq)
    \/ Recv
    \/ RecvFail
    \/ ServeOk
    \/ \E m \in ErrMsgs : ServeError(m)
    \/ \E T \in Tokens : \E f \in LiveFrames(T) : ServeBad(f)

FairSpec == Init /\ [][FairNext]_vars /\ ServerAnswers /\ ChannelDelivers

\* ------------------------------------------------------------ properties
\* the call that completed last consumed a reply
Consumed == last.n > 0 /\ last.fail = ""
ReplyFrame == last.got.frame

\* the reply read as the wire format describes it: one structured document
IsMapping(f)  == loads(f).ok /\ loads(f).v.t = "dict"
IsEnvelope(f) == IsMapping(f) /\ Len(loads(f).v.items) = 1
EnvKind(f)    == loads(f).v.items[1].s
EnvPayload(f) == loads(f).v.items[1].items[1]
Malformed(f)  ==
    \/ ~IsEnvelope(f)
    \/ EnvKind(f) \notin {"TEST", "GET", "SET", "ERROR"}

\* the malformed-response failure: ZeroModbusError(label, cause)
IsInvalidResponse(o) ==
    /\ o.kind = "raise"
    /\ o.etype = "ZeroModbusError"
    /\ o.args = <<Str(InvalidLabel)>>
    /\ o.cause # ""

True == Return(Bool("true"))
False == Return(Bool("false"))

\* C1: a call whose reply is the well-formed envelope {"ERROR": m}, m a
\* string, fails with ZeroModbusError(m) and in no other way
C1_ErrorUnwrapped ==
    (/\ Consumed
     /\ decodeASCII(ReplyFrame)
     /\ IsEnvelope(ReplyFrame)
     /\ EnvKind(ReplyFrame) = "ERROR"
     /\ EnvPayload(ReplyFrame).t = "str")
    => last.out = Raise("ZeroModbusError", <<EnvPayload(ReplyFrame)>>, "")

\* C2: a reply that is not decodable, or decodes to a non-mapping, or to a
\* mapping without exactly one key, or to a single key outside the four
\* kinds, makes the call raise the malformed-response failure
C2_MalformedRaises ==
    (Consumed /\ Malformed(ReplyFrame)) => IsInvalidResponse(last.out)

C2_Witness ==
    /\ Consumed
    /\ IsEnvelope(ReplyFrame)
    /\ EnvKind(ReplyFrame) = "PING"
    /\ IsInvalidResponse(last.out)
    /\ last.out.cause = "AssertionError"

C4_EchoReturnsTrue ==
    (/\ Consumed
     /\ last.op = "test"
     /\ ReplyFrame = <<P("{"), Tok("str", "TEST", FALSE), P(":"),
                       Tok("str", last.tok, FALSE), P("}")>>)
    => last.out = True

C4_Witness ==
    /\ Consumed
    /\ last.op = "test"
    /\ last.got.mode = "ok"
    /\ ReplyFrame = <<P("{"), Tok("str", "TEST", FALSE), P(":"),
                      Tok("str", last.tok, FALSE), P("}")>>
    /\ last.out = True

\* C5: the outcome of the n-th call is computed from the reply to the n-th
\* request and from no other reply
C5_OwnReplyOnly ==
    /\ Consumed => /\ last.got.n = last.n
                   /\ last.out = Finish(last.op, last.tok, after_try(try_recv(ReplyFrame)))
    /\ \A i \in 1..Len(repQ) : repQ[i].n > last.n \/ sock = "await"

C5_Witness ==
    /\ Consumed
    /\ last.n >= 2
    /\ last.op = "get"
    /\ last.got.n = last.n
    /\ last.got.mode = "ok"
    /\ last.out.kind = "return"

\* C6: a transport failure in send_json or in recv makes the call raise the
\* malformed-response failure carrying the transport exception
C6_TransportFailureWrapped ==
    (last.n > 0 /\ last.fail \in {"send", "recv"})
    => last.out = Raise("ZeroModbusError", <<Str(InvalidLabel)>>, "ZMQError")

C6_Witness ==
    /\ last.fail = "recv"
    /\ last.out = Raise("ZeroModbusError", <<Str(InvalidLabel)>>, "ZMQError")

\* C7: a completed call returns the payload of a recognized non-ERROR reply
\* (test: its comparison with the token), or raises the malformed-response
\* failure, or raises ZeroModbusError with the server's ERROR message; no
\* other exception type reaches the caller
C7_ThreeOutcomes ==
    last.n > 0 =>
        \/ /\ last.out.kind = "return"
           /\ Consumed
           /\ IsEnvelope(ReplyFrame)
           /\ EnvKind(ReplyFrame) \in {"TEST", "GET", "SET"}
           /\ last.op # "test" => last.out.val = EnvPayload(ReplyFrame)
        \/ IsInvalidResponse(last.out)
        \/ /\ Consumed
           /\ IsEnvelope(ReplyFrame)
           /\ EnvKind(ReplyFrame) = "ERROR"
           /\ last.out = Raise("ZeroModbusError", <<EnvPayload(ReplyFrame)>>, "")

\* C8: a call sends at most once and receives at most once, and a call that
\* failed in send_json has received nothing
C8_NoRetry ==
    /\ cur.sends <= 1 /\ cur.recvs <= 1
    /\ last.sends <= 1 /\ last.recvs <= 1
    /\ last.fail = "send" => last.recvs = 0
    /\ Len(reqQ) + Len(repQ) <= ncalls
    /\ Len(reqQ) <= 1

C8_Witness ==
    /\ last.fail = "recv"
    /\ last.sends = 1
    /\ last.recvs = 1
    /\ pc = "idle"
    /\ Len(reqQ) + Len(repQ) = 1

C10_SetGetConsistency ==
    (/\ Consumed
     /\ last.op = "get"
     /\ honest
     /\ last.got.mode = "ok")
    => \A i \in 1..Len(last.arg.items) :
          LET p == last.arg.items[i].s IN
          lastSet[p] # NoneV =>
             /\ last.out.kind = "return"
             /\ last.out.val.t = "dict"
             /\ DictHas(last.out.val, p)
             /\ DictGet(last.out.val, p) = lastSet[p]
             /\ Len(last.arg.items) = 1 => last.out.val = Dict(<<Item(p, lastSet[p])>>)

C10_Witness ==
    /\ Consumed
    /\ last.op = "get"
    /\ honest
    /\ last.got.mode = "ok"
    /\ last.arg = List(<<Str("/a")>>)
    /\ lastSet["/a"] = Num("123")
    /\ last.out = Return(Dict(<<Item("/a", Num("123"))>>))

\* C11: a completed call leaves the client and its socket as they were
\* before the call, ready for the next request
C11_SameStateAfterCall == pc = "idle" => sock = "ready"

\* C13: a well-formed single-key envelope of a recognized kind whose bytes
\* are not all ASCII is not classified as a malformed response
C13_NonAsciiAccepted ==
    (/\ Consumed
     /\ ~decodeASCII(ReplyFrame)
     /\ IsEnvelope(ReplyFrame)
     /\ EnvKind(ReplyFrame) \in {"TEST", "GET", "SET", "ERROR"})
    => ~IsInvalidResponse(last.out)

\* C14: at most one request of the client is outstanding (sent, its reply
\* not consumed), whatever calls failed before
C14_StrictAlternation ==
    /\ Len(reqQ) + Len(repQ) <= 1
    /\ pc = "wait" => sock = "await"
    /\ (pc = "idle" /\ sock = "ready") => (reqQ = <<>> /\ repQ = <<>>)

C14_Witness ==
    /\ pc = "idle"
    /\ last.fail = "send"
    /\ last.n >= 2
    /\ sock = "await"
    /\ Len(reqQ) + Len(repQ) = 1

\* C15: every request on the channel is a single-key envelope whose key is
\* TEST, GET or SET, never ERROR, and the request of the call in progress
\* is {TEST: token}, {GET: paths} or {SET: pairs} of that call
RequestOf(c) ==
    CASE c.op = "test" -> [kind |-> "TEST", payload |-> Str(c.tok)]
      [] c.op = "get"  -> [kind |-> "GET", payload |-> c.arg]
      [] c.op = "set"  -> [kind |-> "SET", payload |-> c.arg]

C15_RequestEnvelope ==
    \A i \in 1..Len(reqQ) :
        LET f == reqQ[i].frame IN
        /\ decodeASCII(f)
        /\ IsEnvelope(f)
        /\ EnvKind(f) \in {"TEST", "GET", "SET"}
        /\ cur.n = reqQ[i].n =>
              /\ EnvKind(f) = RequestOf(cur).kind
              /\ EnvPayload(f) = RequestOf(cur).payload

C15_Witness ==
    /\ pc = "wait"
    /\ cur.op = "set"
    /\ Len(reqQ) = 1
    /\ reqQ[1].n = cur.n
    /\ EnvKind(reqQ[1].frame) = "SET"
    /\ EnvPayload(reqQ[1].frame) = Dict(<<Item("/a", Bool("false"))>>)

\* C17: a malformed-response failure carries the label INVALID_RESPONSE and
\* the exception that caused it, and nothing else
IsMalformedFailure(o) ==
    o.kind = "raise" /\ o.etype = "ZeroModbusError" /\ o.cause # ""

C17_LabelAndCause ==
    (Consumed /\ IsMalformedFailure(last.out))
    => last.out.args = <<Str("INVALID_RESPONSE")>>

\* C18: the initial pair ('ERROR', 'ZMQ ERROR') never reaches the caller: a
\* call returns or raises with 'ZMQ ERROR' only when the reply carried it
Placeholder == Str("ZMQ ERROR")
ShowsPlaceholder(o) ==
    \/ o.val = Placeholder
    \/ \E i \in 1..Len(o.args) : o.args[i] = Placeholder

C18_PlaceholderHidden ==
    (last.n > 0 /\ ShowsPlaceholder(last.out))
    => /\ Consumed
       /\ IsEnvelope(ReplyFrame)
       /\ EnvPayload(ReplyFrame) = Placeholder

C18_Witness ==
    /\ Consumed
    /\ try_recv(ReplyFrame).e = "JSONDecodeError"
    /\ try_recv(ReplyFrame).value = Placeholder
    /\ IsInvalidResponse(last.out)
    /\ ~ShowsPlaceholder(last.out)

\* C12: a call blocked in recv() completes only by reading a reply that
\* has arrived or by a transport failure, and a call that completes without
\* blocking failed in send_json; with a server that answers every request
\* and a channel that delivers, every call blocked in recv() completes
BlockingStep ==
    /\ (pc = "wait" /\ pc' = "idle") =>
           \/ last'.fail = "recv"
           \/ /\ repQ # <<>>
              /\ last'.fail = ""
              /\ last'.got = Head(repQ)
              /\ last'.recvs = 1
    /\ (pc = "idle" /\ pc' = "idle" /\ last' # last) => last'.fail = "send"

C12_BlocksUntilReply ==
    /\ [][BlockingStep]_vars
    /\ (pc = "wait") ~> (pc = "idle")

C12_Witness ==
    /\ pc = "idle"
    /\ Consumed
    /\ last.recvs = 1
    /\ last.got.mode = "ok"
    /\ last.out.kind = "return"
====
